---- MODULE Spec2Model ----
(***************************************************************************)
(* Recipe Explorer backend: the Store (categories, recipes, favorites),    *)
(* the startup Seeder and the request handlers of src/api/main.py.         *)
(*                                                                         *)
(* The Store is a relational database reached through one session per      *)
(* request.  Rows a transaction has inserted but not committed are kept    *)
(* with the process that inserted them; a committed row is in the table.   *)
(* A unique index arbitrates concurrent inserts of the same key: the       *)
(* second insert waits for the first transaction to end and then fails     *)
(* with an integrity error if the first one committed.                     *)
(***************************************************************************)
EXTENDS Integers, Sequences, FiniteSets

VARIABLES
    categories,   \* committed rows of table "categories": [id, name]
    recipes,      \* committed rows of table "recipes": [id, title, category_id]
    favorites,    \* committed rows of table "favorites": [id, user_id, recipe_id]
    catSeq,       \* last value drawn from the categories id sequence
    recSeq,       \* last value drawn from the recipes id sequence
    favSeq,       \* last value drawn from the favorites id sequence
    seed,         \* per service instance: the position of _on_startup / seed_if_empty
    req,          \* per add-favorite request: its position, inputs and response
    resp,         \* the response of the last read-only request
    sessions,     \* the Store sessions that are open
    search,       \* list_recipes with a query string: store texts, inputs, result
    detail        \* get_recipe's ingredient shaping: stored text, input, result

vars == << categories, recipes, favorites, catSeq, recSeq, favSeq,
           seed, req, resp, sessions, search, detail >>

storeVars == << categories, recipes, favorites, catSeq, recSeq, favSeq >>

(***************************************************************************)
(* Bounds of the model.                                                    *)
(***************************************************************************)
NumInstances == 2      \* service instances starting up
NumAdd == 2            \* add-favorite requests
PreRows == 2           \* rows per table a Store may hold before the Seeder runs
MaxFaults == 1         \* storage faults (connectivity errors) in a run
NumStartups == 1       \* instances that start while sessions are followed
MaxQueryLen == 3       \* characters of a query string q
MaxLineLen == 1        \* characters of a stored ingredient line (search)
MaxLines == 2          \* ingredient lines of a stored recipe (search)
MaxTextLen == 5        \* characters of a stored ingredient text (detail)

Instances == 1..NumInstances
Slots == 1..NumAdd
UserIds == {1, 2}
\* recipe ids a client may ask for: one of the seeded catalog, one of no recipe
GetInputs == {1, 8}
CategoryIdInputs == {0, 1}   \* 0 stands for "no category_id given"
\* (user_id, recipe_id) bodies a client may post: a pair, the same user with
\* another recipe, a recipe that does not exist
AddInputs == { << 1, 1 >>, << 1, 2 >>, << 1, 8 >> }

(***************************************************************************)
(* The fixed catalog of seed.py.                                           *)
(***************************************************************************)
SeedCategoryNames == << "Breakfast", "Lunch", "Dinner", "Dessert", "Drinks" >>

SeedRecipes ==
    << [title |-> "Retro Blueberry Pancakes",    category |-> "Breakfast"],
       [title |-> "Neon Avocado Toast",          category |-> "Breakfast"],
       [title |-> "Classic Diner Grilled Cheese", category |-> "Lunch"],
       [title |-> "Cosmic Tomato Soup",          category |-> "Lunch"],
       [title |-> "Synthwave Stir-Fry",          category |-> "Dinner"],
       [title |-> "Arcade Brownie Squares",      category |-> "Dessert"],
       [title |-> "Minty Pixel Milkshake",       category |-> "Drinks"] >>

Range(s) == { s[k] : k \in DOMAIN s }

(***************************************************************************)
(* Store constraints (models.py).                                          *)
(***************************************************************************)
\* Category.name is unique: a committed row already carries one of the names
CategoryNameTakenNever(names) == FALSE
CategoryNameTaken(names) == \E c \in categories : c.name \in names

\* another transaction holds uncommitted category rows with one of the names
CategoryInsertWaits(i, names) ==
    \E j \in Instances \ {i} : \E c \in seed[j].pending : c.name \in names

\* uq_favorites_user_recipe: a committed row already carries the pair
UniqueViolationNever(u, rid) == FALSE
UniqueViolation(u, rid) ==
    \E f \in favorites : f.user_id = u /\ f.recipe_id = rid

\* another transaction holds an uncommitted favorite row with the same pair
FavoriteInsertWaitsNever(r) == FALSE
FavoriteInsertWaits(r) ==
    \E s \in Slots \ {r} :
        /\ req[s].pc = "flushed"
        /\ req[s].user_id = req[r].user_id
        /\ req[s].recipe_id = req[r].recipe_id

\* db.get(Recipe, recipe_id)
GetRecipeRow(rid) == { x \in recipes : x.id = rid }

\* add_favorite's "recipe is None" test, negated
RecipeFoundAlways(rid) == TRUE
RecipeFound(rid) == GetRecipeRow(rid) # {}

(***************************************************************************)
(* Sorting helpers for ORDER BY.                                           *)
(***************************************************************************)
MaxId(rows) == CHOOSE x \in rows : \A y \in rows : y.id <= x.id
MinId(rows) == CHOOSE x \in rows : \A y \in rows : x.id <= y.id

RECURSIVE OrderByIdAsc(_)
OrderByIdAsc(rows) ==
    IF rows = {} THEN << >>
    ELSE LET x == MinId(rows) IN << x >> \o OrderByIdAsc(rows \ {x})

RECURSIVE OrderByIdDesc(_)
OrderByIdDesc(rows) ==
    IF rows = {} THEN << >>
    ELSE LET x == MaxId(rows) IN << x >> \o OrderByIdDesc(rows \ {x})

\* the Store's collation on the category names that occur
NameOrder == << "Breakfast", "Dessert", "Dinner", "Drinks", "Lunch", "Snacks" >>
NameRank(n) == CHOOSE k \in DOMAIN NameOrder : NameOrder[k] = n
MinName(rows) == CHOOSE x \in rows : \A y \in rows : NameRank(x.name) <= NameRank(y.name)

RECURSIVE OrderByNameAsc(_)
OrderByNameAsc(rows) ==
    IF rows = {} THEN << >>
    ELSE LET x == MinName(rows) IN << x >> \o OrderByNameAsc(rows \ {x})

(***************************************************************************)
(* Startup: _on_startup opens a session and runs seed_if_empty.            *)
(***************************************************************************)
SeedSession(i) == << "seed", i >>
ReqSession(r) == << "req", r >>

\* select(Category).limit(1) finds no row
SeedStoreEmptyNoRecipes == categories = {} /\ recipes = {}
SeedStoreEmpty == categories = {}

\* the category rows of seed.py, with ids drawn from the sequence
NewCategories ==
    { [id |-> catSeq + k, name |-> SeedCategoryNames[k]] : k \in DOMAIN SeedCategoryNames }

\* the recipe rows of seed.py, category_id = by_name[...].id
NewRecipes(cats) ==
    { [id |-> recSeq + k,
       title |-> SeedRecipes[k].title,
       category_id |-> (CHOOSE c \in cats : c.name = SeedRecipes[k].category).id]
      : k \in DOMAIN SeedRecipes }

\* seed.py 15-17: the emptiness check; a non-empty Store ends startup at once.
\* Instances are interchangeable: they are numbered in the order they start.
SeedCheck(i) ==
    /\ seed[i].pc = "start"
    /\ (IF i = 1 THEN TRUE ELSE seed[i - 1].pc # "start")
    /\ IF SeedStoreEmpty
       THEN /\ seed' = [seed EXCEPT ![i].pc = "insert"]
            /\ sessions' = sessions \cup {SeedSession(i)}
       ELSE /\ seed' = [seed EXCEPT ![i].pc = "done"]
            /\ UNCHANGED sessions
    /\ UNCHANGED << storeVars, req, resp, search, detail >>

\* seed.py 19-27: add_all(categories); flush().  No handler catches the
\* integrity error: it leaves seed_if_empty and _on_startup, the session is
\* closed by get_db_session and the instance's startup fails.
SeedFlush(i) ==
    /\ seed[i].pc = "insert"
    /\ ~CategoryInsertWaits(i, Range(SeedCategoryNames))
    /\ IF CategoryNameTaken(Range(SeedCategoryNames))
       THEN /\ seed' = [seed EXCEPT ![i].pc = "crashed"]
            /\ catSeq' = catSeq + 1
            /\ sessions' = sessions \ {SeedSession(i)}
       ELSE /\ seed' = [seed EXCEPT ![i].pc = "flushed", ![i].pending = NewCategories]
            /\ catSeq' = catSeq + Len(SeedCategoryNames)
            /\ UNCHANGED sessions
    /\ UNCHANGED << categories, recipes, favorites, recSeq, favSeq, req, resp, search, detail >>

\* seed.py 29-165: add_all(recipes); commit().  Categories and recipes become
\* visible together.
SeedCommit(i) ==
    /\ seed[i].pc = "flushed"
    /\ categories' = categories \cup seed[i].pending
    /\ recipes' = recipes \cup NewRecipes(seed[i].pending)
    /\ recSeq' = recSeq + Len(SeedRecipes)
    /\ seed' = [seed EXCEPT ![i].pc = "done", ![i].pending = {}]
    /\ sessions' = sessions \ {SeedSession(i)}
    /\ UNCHANGED << favorites, catSeq, favSeq, req, resp, search, detail >>

\* an instance serves requests once its startup has completed
Serving == \E i \in Instances : seed[i].pc = "done"

(***************************************************************************)
(* add_favorite (main.py 178-213).                                         *)
(***************************************************************************)
IdleReq == [pc |-> "idle", user_id |-> 0, recipe_id |-> 0, fav |-> 0,
            status |-> 0, id |-> 0, path |-> "none", before |-> {}]

\* Favorite rows for the pair, as the re-read after rollback selects them
ExistingFavorite(u, rid) ==
    { f \in favorites : f.user_id = u /\ f.recipe_id = rid }

\* commit of the inserted favorite row
CommitFavoriteReplacing(row) == {row}
CommitFavorite(row) == favorites \cup {row}

\* main.py 180-185: db.get(Recipe, recipe_id); 404 when there is none;
\* otherwise the Favorite object is added to the session.  Requests are
\* numbered in the order they arrive; before is the set of requests that
\* had been answered when this one arrived.
AddStart(r, u, rid) ==
    /\ Serving
    /\ req[r].pc = "idle"
    /\ (IF r = 1 THEN TRUE ELSE req[r - 1].pc # "idle")
    /\ LET started == [req[r] EXCEPT !.user_id = u, !.recipe_id = rid,
                                     !.before = { s \in Slots : req[s].pc = "done" }]
       IN IF RecipeFound(rid)
          THEN /\ req' = [req EXCEPT ![r] = [started EXCEPT !.pc = "add"]]
               /\ sessions' = sessions \cup {ReqSession(r)}
          ELSE /\ req' = [req EXCEPT ![r] = [started EXCEPT !.pc = "done", !.status = 404]]
               /\ UNCHANGED sessions
    /\ UNCHANGED << storeVars, seed, resp, search, detail >>

\* main.py 187, first half: commit() flushes the INSERT; the id comes from
\* the sequence whether or not the unique index accepts the row
AddFlush(r) ==
    /\ req[r].pc = "add"
    /\ ~FavoriteInsertWaits(r)
    /\ favSeq' = favSeq + 1
    /\ IF UniqueViolation(req[r].user_id, req[r].recipe_id)
       THEN req' = [req EXCEPT ![r].pc = "conflict"]
       ELSE req' = [req EXCEPT ![r].pc = "flushed", ![r].fav = favSeq + 1]
    /\ UNCHANGED << categories, recipes, favorites, catSeq, recSeq,
                    seed, resp, sessions, search, detail >>

\* main.py 187, second half, and 206-213: COMMIT, refresh(fav), the response
AddCommit(r) ==
    /\ req[r].pc = "flushed"
    /\ LET row == [id |-> req[r].fav, user_id |-> req[r].user_id,
                   recipe_id |-> req[r].recipe_id]
       IN /\ favorites' = CommitFavorite(row)
          /\ req' = [req EXCEPT ![r].pc = "done", ![r].status = 200,
                                ![r].id = row.id, ![r].path = "created"]
    /\ sessions' = sessions \ {ReqSession(r)}
    /\ UNCHANGED << categories, recipes, catSeq, recSeq, favSeq,
                    seed, resp, search, detail >>

\* main.py 188-204: rollback(), re-read of the pair with scalar_one_or_none
\* (an error when several rows match), the existing row as the response, or
\* the integrity error raised again when there is no row
AddRecover(r) ==
    /\ req[r].pc = "conflict"
    /\ LET existing == ExistingFavorite(req[r].user_id, req[r].recipe_id)
       IN IF Cardinality(existing) = 1
          THEN req' = [req EXCEPT ![r].pc = "done", ![r].status = 200,
                                  ![r].id = (CHOOSE f \in existing : TRUE).id,
                                  ![r].path = "existing"]
          ELSE req' = [req EXCEPT ![r].pc = "done", ![r].status = 500]
    /\ sessions' = sessions \ {ReqSession(r)}
    /\ UNCHANGED << storeVars, seed, resp, search, detail >>

(***************************************************************************)
(* The read-only handlers.  Each opens a session, runs its queries and     *)
(* closes the session within the request.                                  *)
(***************************************************************************)
\* health_check (main.py 71-73): no session, a constant payload
Health ==
    /\ Serving
    /\ resp' = [op |-> "health", arg |-> 0, status |-> 200,
                body |-> << [status |-> "ok"] >>]
    /\ UNCHANGED << storeVars, seed, req, sessions, search, detail >>

\* list_categories (main.py 84-87): ORDER BY name ASC
ListCategories ==
    /\ Serving
    /\ resp' = [op |-> "list_categories", arg |-> 0, status |-> 200,
                body |-> OrderByNameAsc(categories)]
    /\ UNCHANGED << storeVars, seed, req, sessions, search, detail >>

\* RecipeListOut: the short form, without ingredients and instructions
RecipeListOut(x) == [id |-> x.id, title |-> x.title, category_id |-> x.category_id]

\* list_recipes without q (main.py 112-138): optional category filter,
\* ORDER BY id ASC, the short form of each recipe
ListRecipesRows(cid) ==
    IF cid = 0 THEN recipes ELSE { x \in recipes : x.category_id = cid }

ListRecipes(cid) ==
    /\ Serving
    /\ LET rows == OrderByIdAsc(ListRecipesRows(cid))
       IN resp' = [op |-> "list_recipes", arg |-> cid, status |-> 200,
                   body |-> [k \in DOMAIN rows |-> RecipeListOut(rows[k])]]
    /\ UNCHANGED << storeVars, seed, req, sessions, search, detail >>

\* get_recipe (main.py 149-167) without the ingredient shaping, which
\* GetRecipeDetail models: 404 when there is no row; the category name, or ""
\* when the category row is missing
CategoryName(cid) ==
    IF \E c \in categories : c.id = cid
    THEN (CHOOSE c \in categories : c.id = cid).name
    ELSE ""

GetRecipe(rid) ==
    /\ Serving
    /\ IF GetRecipeRow(rid) # {}
       THEN LET x == CHOOSE y \in GetRecipeRow(rid) : TRUE
            IN resp' = [op |-> "get_recipe", arg |-> rid, status |-> 200,
                        body |-> << [id |-> x.id, title |-> x.title,
                                     category_id |-> x.category_id,
                                     category_name |-> CategoryName(x.category_id)] >>]
       ELSE resp' = [op |-> "get_recipe", arg |-> rid, status |-> 404, body |-> << >>]
    /\ UNCHANGED << storeVars, seed, req, sessions, search, detail >>

\* list_favorites (main.py 224-246): favorites JOIN recipes, the user's rows,
\* ORDER BY favorites.id DESC
FavoriteOut(f) ==
    [id |-> f.id, user_id |-> f.user_id, recipe_id |-> f.recipe_id,
     recipe_title |-> (CHOOSE x \in recipes : x.id = f.recipe_id).title]

JoinedFavorites(u) ==
    { f \in favorites : f.user_id = u /\ \E x \in recipes : x.id = f.recipe_id }

FavoritesOrderAsc(rows) == OrderByIdAsc(rows)
FavoritesOrder(rows) == OrderByIdDesc(rows)

ListFavoritesBody(u) ==
    LET rows == FavoritesOrder(JoinedFavorites(u))
    IN [k \in DOMAIN rows |-> FavoriteOut(rows[k])]

ListFavorites(u) ==
    /\ Serving
    /\ resp' = [op |-> "list_favorites", arg |-> u, status |-> 200,
                body |-> ListFavoritesBody(u)]
    /\ UNCHANGED << storeVars, seed, req, sessions, search, detail >>

(***************************************************************************)
(* The service.  The Store outlives the service: instances start against   *)
(* an empty Store, or against one that an earlier run has seeded and in    *)
(* which another user has a favorite.                                      *)
(***************************************************************************)
EmptyStore ==
    [categories |-> {}, recipes |-> {}, favorites |-> {},
     catSeq |-> 0, recSeq |-> 0, favSeq |-> 0]

UsedStore ==
    LET cats == { [id |-> k, name |-> SeedCategoryNames[k]] : k \in DOMAIN SeedCategoryNames }
    IN [categories |-> cats,
        recipes |-> { [id |-> k, title |-> SeedRecipes[k].title,
                       category_id |-> (CHOOSE c \in cats : c.name = SeedRecipes[k].category).id]
                      : k \in DOMAIN SeedRecipes },
        favorites |-> { [id |-> 1, user_id |-> 2, recipe_id |-> 1] },
        catSeq |-> Len(SeedCategoryNames), recSeq |-> Len(SeedRecipes), favSeq |-> 1]

StoreIs(st) ==
    /\ categories = st.categories
    /\ recipes = st.recipes
    /\ favorites = st.favorites
    /\ catSeq = st.catSeq
    /\ recSeq = st.recSeq
    /\ favSeq = st.favSeq

NoResp == [op |-> "none", arg |-> 0, status |-> 0, body |-> << >>]
SearchOff == [phase |-> "off"]
DetailOff == [phase |-> "off"]

Init ==
    /\ \E st \in {EmptyStore, UsedStore} : StoreIs(st)
    /\ seed = [i \in Instances |-> [pc |-> "start", pending |-> {}]]
    /\ req = [r \in Slots |-> IdleReq]
    /\ resp = NoResp
    /\ sessions = {}
    /\ search = SearchOff
    /\ detail = DetailOff

Next ==
    \/ \E i \in Instances : SeedCheck(i)
    \/ \E i \in Instances : SeedFlush(i)
    \/ \E i \in Instances : SeedCommit(i)
    \/ \E r \in Slots, p \in AddInputs : AddStart(r, p[1], p[2])
    \/ \E r \in Slots : AddFlush(r)
    \/ \E r \in Slots : AddCommit(r)
    \/ \E r \in Slots : AddRecover(r)
    \/ Health
    \/ ListCategories
    \/ \E cid \in CategoryIdInputs : ListRecipes(cid)
    \/ \E rid \in GetInputs : GetRecipe(rid)
    \/ \E u \in UserIds : ListFavorites(u)

Spec == Init /\ [][Next]_vars

(***************************************************************************)
(* Properties of add-favorite and the Seeder under Spec.                   *)
(***************************************************************************)
RecipeKnown(rid) == \E x \in recipes : x.id = rid
SamePair(r, s) ==
    req[r].user_id = req[s].user_id /\ req[r].recipe_id = req[s].recipe_id
Answered(r) == req[r].pc = "done"
Overlapped(r, s) == r # s /\ r \notin req[s].before /\ s \notin req[r].before

\* C1: add-favorite is idempotent.  Any two answered add-favorite calls (the
\* same call included) with the same (user_id, recipe_id) on an existing
\* recipe both succeeded and returned the same Favorite id, and the Store
\* holds exactly one Favorite row for the pair.
C1_AddFavoriteIdempotent ==
    \A r, s \in Slots :
        (Answered(r) /\ Answered(s) /\ SamePair(r, s) /\ RecipeKnown(req[r].recipe_id))
        => /\ req[r].status = 200
           /\ req[s].status = 200
           /\ req[r].id = req[s].id
           /\ Cardinality({ f \in favorites : f.user_id = req[r].user_id
                                             /\ f.recipe_id = req[r].recipe_id }) = 1

\* two calls with the same pair were answered, one after the other
C1_Witness ==
    \E r, s \in Slots :
        /\ Answered(r) /\ Answered(s) /\ SamePair(r, s)
        /\ r \in req[s].before
        /\ req[r].path = "created" /\ req[s].path = "existing"
        /\ req[r].id = req[s].id

\* C2: under every interleaving of concurrent add-favorite requests the
\* Store never holds two Favorite rows with the same (user_id, recipe_id),
\* and every request answered successfully returned the id of the stored
\* row of its pair.
C2_ConcurrentAddSingleRow ==
    /\ \A f, g \in favorites :
           (f.user_id = g.user_id /\ f.recipe_id = g.recipe_id) => f = g
    /\ \A r \in Slots :
           (Answered(r) /\ req[r].status = 200)
           => \E f \in favorites : /\ f.id = req[r].id
                                   /\ f.user_id = req[r].user_id
                                   /\ f.recipe_id = req[r].recipe_id

\* two requests for the same pair ran concurrently; one inserted the row,
\* the other hit the uniqueness violation and returned the same row
C2_Witness ==
    \E r, s \in Slots :
        /\ Answered(r) /\ Answered(s) /\ SamePair(r, s) /\ Overlapped(r, s)
        /\ req[r].path = "created" /\ req[s].path = "existing"
        /\ req[s].id = req[r].id

\* C3: add-favorite with a recipe_id of no Recipe row is answered 404 in the
\* step that reads the recipe, for every user_id, and that step leaves the
\* tables and the id sequences as they were.
C3_UnknownRecipeNotFound ==
    [][\A r \in Slots :
          (req[r].pc = "idle" /\ req'[r].pc # "idle" /\ ~RecipeKnown(req'[r].recipe_id))
          => /\ req'[r].pc = "done"
             /\ req'[r].status = 404
             /\ UNCHANGED storeVars]_vars

\* an add-favorite for recipe 8 was answered 404 while the catalog is stored
C3_Witness ==
    \E r \in Slots :
        /\ Answered(r) /\ req[r].status = 404
        /\ ~RecipeKnown(req[r].recipe_id)
        /\ recipes # {}

\* C4: an instance whose category insert hits the uniqueness violation on
\* Category name completes startup normally: no instance's startup fails.
C4_SeederToleratesViolation ==
    \A i \in Instances : seed[i].pc # "crashed"

\* C5: under every interleaving of concurrent Seeder runs the committed
\* Store is either empty or holds the catalog once: five categories with
\* five names and seven recipes, each recipe in a stored category; so once a
\* Seeder has finished, the catalog is there.
CatalogOnce ==
    /\ Cardinality(categories) = Len(SeedCategoryNames)
    /\ { c.name : c \in categories } = Range(SeedCategoryNames)
    /\ Cardinality(recipes) = Len(SeedRecipes)
    /\ \A x \in recipes : \E c \in categories : c.id = x.category_id

C5_NoDoubleSeed ==
    /\ (categories # {} \/ recipes # {}) => CatalogOnce
    /\ (\E i \in Instances : seed[i].pc = "done") => CatalogOnce

\* two Seeders both found the Store empty; one committed the catalog, the
\* other was stopped by the unique index
C5_Witness ==
    \E i, j \in Instances :
        /\ seed[i].pc = "done" /\ seed[j].pc = "crashed"
        /\ CatalogOnce

(***************************************************************************)
(* Properties of the read-only handlers under Spec.                        *)
(***************************************************************************)
BodyIds(body) == { body[k].id : k \in DOMAIN body }
PositionOf(body, id) == CHOOSE k \in DOMAIN body : body[k].id = id

\* C9: a list-favorites response for user u holds exactly the Favorite rows
\* of u at that moment, ordered by id strictly descending, with status 200
\* (an empty list when u has none); of two favorites of u created by
\* requests of which one arrived after the other was answered, the later one
\* comes first.
C9_ListFavoritesExactDescending ==
    [][(resp' # resp /\ resp'.op = "list_favorites")
       => LET u == resp'.arg
              body == resp'.body
          IN /\ resp'.status = 200
             /\ BodyIds(body) = { f.id : f \in { g \in favorites : g.user_id = u } }
             /\ \A k \in DOMAIN body :
                    /\ body[k].user_id = u
                    /\ \E f \in favorites : /\ f.id = body[k].id
                                            /\ f.user_id = body[k].user_id
                                            /\ f.recipe_id = body[k].recipe_id
             /\ \A k, m \in DOMAIN body : k < m => body[k].id > body[m].id
             /\ \A r, s \in Slots :
                    ( /\ Answered(r) /\ Answered(s)
                      /\ req[r].path = "created" /\ req[s].path = "created"
                      /\ req[r].user_id = u /\ req[s].user_id = u
                      /\ s \in req[r].before )
                    => PositionOf(body, req[r].id) < PositionOf(body, req[s].id)]_vars

\* user 1 has two favorites, another user has one, and user 1's list was read
C9_Witness ==
    /\ resp.op = "list_favorites"
    /\ Len(resp.body) = 2
    /\ \E f \in favorites : f.user_id # resp.arg
    /\ BodyIds(resp.body) = { f.id : f \in { g \in favorites : g.user_id = resp.arg } }

\* C10: a read-only request (health, list-categories, list-recipes,
\* get-recipe, list-favorites) leaves the three tables unchanged; a step of
\* an add-favorite request leaves categories and recipes unchanged, keeps
\* every Favorite row and adds at most one; and the tables change only in a
\* step of an add-favorite request or of the startup Seeder.
Tables == << categories, recipes, favorites >>

C10_OnlyAddFavoriteMutates ==
    [][/\ resp' # resp => UNCHANGED Tables
       /\ req' # req => /\ UNCHANGED << categories, recipes >>
                        /\ favorites \subseteq favorites'
                        /\ Cardinality(favorites' \ favorites) <= 1
       /\ Tables' # Tables => (req' # req \/ seed' # seed)]_vars

\* reads have been answered and a second favorite was added to a Store that
\* already held one
C10_Witness ==
    /\ resp.op # "none"
    /\ Cardinality(favorites) = 2
    /\ \E r \in Slots : Answered(r) /\ req[r].path = "created" /\ req[r].before # {}

(***************************************************************************)
(* The Seeder run repeatedly, one run after the other, against a Store     *)
(* with any earlier content.  The emptiness check reads the categories     *)
(* table only, so the earlier content is not required to respect the       *)
(* foreign keys (a Store loaded with the checks off).                      *)
(***************************************************************************)
PreNames == << "Snacks", "Breakfast", "Lunch" >>
PreCategoryRows == { [id |-> k, name |-> PreNames[k]] : k \in 1..PreRows }
PreRecipeRows == { [id |-> k, title |-> "Toast", category_id |-> k] : k \in 1..PreRows }
PreFavoriteRows == { [id |-> k, user_id |-> k, recipe_id |-> k] : k \in 1..PreRows }

SeedInit ==
    /\ categories \in SUBSET PreCategoryRows
    /\ recipes \in SUBSET PreRecipeRows
    /\ favorites \in SUBSET PreFavoriteRows
    /\ catSeq = PreRows
    /\ recSeq = PreRows
    /\ favSeq = PreRows
    /\ seed = [i \in Instances |-> [pc |-> "start", pending |-> {}]]
    /\ req = [r \in Slots |-> IdleReq]
    /\ resp = NoResp
    /\ sessions = {}
    /\ search = SearchOff
    /\ detail = DetailOff

\* no other run is between its check and its end
SeedTurn(i) ==
    \A j \in Instances \ {i} : seed[j].pc \in {"start", "done", "crashed"}

SeedNext ==
    \/ \E i \in Instances : SeedTurn(i) /\ SeedCheck(i)
    \/ \E i \in Instances : SeedTurn(i) /\ SeedFlush(i)
    \/ \E i \in Instances : SeedTurn(i) /\ SeedCommit(i)

SeedSpec == SeedInit /\ [][SeedNext]_vars

\* C6: seeding is idempotent and depends only on Category rows.  A run that
\* finds a Category row ends at once and leaves every table and sequence
\* unchanged, whatever the Recipe and Favorite rows; a run that finds none
\* goes on to insert, whatever the Recipe and Favorite rows, and commits the
\* five categories and seven more recipes, keeping the rows there were; and
\* once one run has ended no later run changes a table, so the counts after
\* any number of runs are those after one.
C6_SeedingIdempotent ==
    [][/\ \A i \in Instances :
            (seed[i].pc = "start" /\ seed'[i].pc # "start")
            => IF categories # {}
               THEN seed'[i].pc = "done" /\ UNCHANGED storeVars
               ELSE seed'[i].pc = "insert"
       /\ \A i \in Instances :
            seed[i].pc = "insert" => seed'[i].pc \in {"insert", "flushed"}
       /\ \A i \in Instances :
            (seed[i].pc = "flushed" /\ seed'[i].pc # "flushed")
            => /\ seed'[i].pc = "done"
               /\ categories = {}
               /\ Cardinality(categories') = Len(SeedCategoryNames)
               /\ { c.name : c \in categories' } = Range(SeedCategoryNames)
               /\ recipes \subseteq recipes'
               /\ Cardinality(recipes' \ recipes) = Len(SeedRecipes)
               /\ \A x \in recipes' \ recipes : \E c \in categories' : c.id = x.category_id
               /\ favorites' = favorites
       /\ (\E j \in Instances : seed[j].pc = "done") => UNCHANGED Tables]_vars

\* the Store held recipes and favorites but no category; the first run
\* inserted the catalog beside them and a second run has ended too
C6_Witness ==
    /\ \A i \in Instances : seed[i].pc = "done"
    /\ Cardinality(categories) = Len(SeedCategoryNames)
    /\ Cardinality(recipes) > Len(SeedRecipes)
    /\ favorites # {}

(***************************************************************************)
(* Text.  A string is a sequence of one-character strings.                 *)
(***************************************************************************)
SeqsUpTo(S, n) == UNION { [1..k -> S] : k \in 0..n }

\* str.lower() / the case folding of ILIKE, on the characters that occur
LowerChar(c) == IF c = "A" THEN "a" ELSE IF c = "B" THEN "b" ELSE c
Lower(s) == [k \in DOMAIN s |-> LowerChar(s[k])]

\* the characters str.strip() removes, and those str.splitlines() splits at
Whitespace == { " ", "\n", "\r", "\t" }
LineBreaks == { "\n", "\r" }

RECURSIVE LStrip(_)
LStrip(s) ==
    IF s # << >> /\ Head(s) \in Whitespace THEN LStrip(Tail(s)) ELSE s

RECURSIVE RStrip(_)
RStrip(s) ==
    IF s # << >> /\ s[Len(s)] \in Whitespace THEN RStrip(SubSeq(s, 1, Len(s) - 1)) ELSE s

\* str.strip()
StripNothing(s) == s
Strip(s) == RStrip(LStrip(s))

\* seed.py _nl: "\n".join(items)
RECURSIVE NlJoin(_)
NlJoin(items) ==
    IF items = << >> THEN << >>
    ELSE IF Len(items) = 1 THEN items[1]
    ELSE items[1] \o << "\n" >> \o NlJoin(Tail(items))

\* q occurs in text as a contiguous run of characters
Contains(q, text) ==
    \E k \in 0..(Len(text) - Len(q)) : SubSeq(text, k + 1, k + Len(q)) = q

\* SQL LIKE on case-folded operands: % matches any run of characters,
\* _ matches any one character, every other character matches itself
RECURSIVE Like(_, _)
Like(pattern, text) ==
    IF pattern = << >> THEN text = << >>
    ELSE IF Head(pattern) = "%"
         THEN Like(Tail(pattern), text) \/ (text # << >> /\ Like(pattern, Tail(text)))
    ELSE IF text = << >> THEN FALSE
    ELSE /\ (Head(pattern) = "_" \/ Head(pattern) = Head(text))
         /\ Like(Tail(pattern), Tail(text))

\* column.ilike(pattern)
ILike(text, pattern) == Like(Lower(pattern), Lower(text))

(***************************************************************************)
(* list_recipes with a query string (main.py 112-138), on a Store of two   *)
(* recipes whose texts are drawn from bounded sets.                        *)
(***************************************************************************)
StoreChars == { "a", "B", " " }
QueryChars == { "a", "A", "b", " ", "\n", "_", "%" }
SearchTitles == { << c >> : c \in StoreChars } \cup { << "a", "B" >> }
SearchLines == SeqsUpTo(StoreChars, MaxLineLen)
SearchIngredientLists == SeqsUpTo(SearchLines, MaxLines)
SearchQueries == SeqsUpTo(QueryChars, MaxQueryLen)

SearchStore(title, lines) ==
    { [id |-> 1, title |-> title, ingredients |-> NlJoin(lines), category_id |-> 1],
      [id |-> 2, title |-> << "B", "a" >>, ingredients |-> NlJoin(<< << "a" >>, << "B" >> >>),
       category_id |-> 2] }

\* main.py 123-125: if q: like = f"%{q.strip()}%"; title ILIKE or ingredients ILIKE
LikePattern(q) == << "%" >> \o Strip(q) \o << "%" >>

MatchesQuery(x, q) ==
    ILike(x.title, LikePattern(q)) \/ ILike(x.ingredients, LikePattern(q))

\* the statement list_recipes builds: q_given is FALSE when the parameter is
\* absent; an empty q adds no filter; category_id 0 stands for absent
SearchRows(store, cid, q_given, q) ==
    { x \in store :
        /\ (cid # 0 => x.category_id = cid)
        /\ ((q_given /\ q # << >>) => MatchesQuery(x, q)) }

SearchRecipes ==
    /\ search.phase = "input"
    /\ LET rows == OrderByIdAsc(SearchRows(search.store, search.category_id,
                                           search.q_given, search.q))
       IN search' = [search EXCEPT
                       !.phase = "done",
                       !.result = [k \in DOMAIN rows |-> RecipeListOut(rows[k])]]
    /\ UNCHANGED << storeVars, seed, req, resp, sessions, detail >>

Quiet ==
    /\ StoreIs(EmptyStore)
    /\ seed = [i \in Instances |-> [pc |-> "start", pending |-> {}]]
    /\ req = [r \in Slots |-> IdleReq]
    /\ resp = NoResp
    /\ sessions = {}

SearchInit ==
    /\ Quiet
    /\ detail = DetailOff
    /\ \E title \in SearchTitles, lines \in SearchIngredientLists,
          q \in SearchQueries, given \in BOOLEAN, cid \in CategoryIdInputs :
          /\ (~given => q = << >>)
          /\ search = [phase |-> "input", store |-> SearchStore(title, lines),
                       category_id |-> cid, q_given |-> given, q |-> q,
                       result |-> << >>]

SearchNext == SearchRecipes

SearchSpec == SearchInit /\ [][SearchNext]_vars

\* C7: for every recipe R and every query string q given to list-recipes
\* without a category filter, R is in the results if and only if q, taken
\* exactly as supplied and compared case-insensitively, is a substring of
\* R.title or of R's stored newline-joined ingredient text.
C7_SearchIffSubstring ==
    (search.phase = "done" /\ search.q_given /\ search.category_id = 0)
    => \A x \in search.store :
           (x.id \in BodyIds(search.result))
           <=> \/ Contains(Lower(search.q), Lower(x.title))
               \/ Contains(Lower(search.q), Lower(x.ingredients))

\* the failing input of C7's line-break clause: q = "a_b" is a substring
\* neither of the title nor of the stored text "a\nB", and the recipe is in
\* the results
C7_LineBreakQueryMatches ==
    /\ search.phase = "done" /\ search.q_given /\ search.category_id = 0
    /\ search.q = << "a", "_", "b" >>
    /\ \E x \in search.store :
           /\ x.ingredients = << "a", "\n", "B" >>
           /\ x.id \in BodyIds(search.result)
           /\ ~Contains(Lower(search.q), Lower(x.title))
           /\ ~Contains(Lower(search.q), Lower(x.ingredients))

(***************************************************************************)
(* get_recipe (main.py 149-167) with its ingredient shaping, on a Store    *)
(* of one recipe whose ingredient text is drawn from a bounded set.        *)
(***************************************************************************)
DetailChars == { "a", "b", " ", "\n", "\r" }
DetailTexts == SeqsUpTo(DetailChars, MaxTextLen)

\* str.splitlines(): lines end at \n, \r or \r\n; no last empty line
RECURSIVE SplitLinesFrom(_, _)
SplitLinesFrom(text, cur) ==
    IF text = << >> THEN (IF cur = << >> THEN << >> ELSE << cur >>)
    ELSE IF Head(text) = "\r" /\ Len(text) >= 2 /\ text[2] = "\n"
         THEN << cur >> \o SplitLinesFrom(Tail(Tail(text)), << >>)
    ELSE IF Head(text) \in LineBreaks
         THEN << cur >> \o SplitLinesFrom(Tail(text), << >>)
    ELSE SplitLinesFrom(Tail(text), Append(cur, Head(text)))

SplitLines(text) == SplitLinesFrom(text, << >>)

\* line.strip() of the comprehension in main.py 156
StripLine(line) == Strip(line)

\* [line.strip() for line in text.splitlines() if line.strip()]
KeepsLineAlways(line) == TRUE
KeepsLine(line) == StripLine(line) # << >>

IngredientList(text) ==
    LET kept == SelectSeq(SplitLines(text), KeepsLine)
    IN [k \in DOMAIN kept |-> StripLine(kept[k])]

GetRecipeDetail ==
    /\ detail.phase = "input"
    /\ LET found == { x \in detail.recipes : x.id = detail.recipe_id }
       IN IF found = {}
          THEN detail' = [detail EXCEPT !.phase = "done", !.status = 404]
          ELSE LET x == CHOOSE y \in found : TRUE
                   cat == { c \in detail.categories : c.id = x.category_id }
               IN detail' = [detail EXCEPT
                     !.phase = "done",
                     !.status = 200,
                     !.ingredients = IngredientList(x.ingredients),
                     !.category_name = IF cat = {} THEN ""
                                       ELSE (CHOOSE c \in cat : TRUE).name]
    /\ UNCHANGED << storeVars, seed, req, resp, sessions, search >>

DetailInit ==
    /\ Quiet
    /\ search = SearchOff
    /\ \E text \in DetailTexts, rid \in GetInputs,
          cats \in { {}, { [id |-> 1, name |-> "Breakfast"] } } :
          detail = [phase |-> "input",
                    recipes |-> { [id |-> 1, ingredients |-> text, category_id |-> 1] },
                    categories |-> cats,
                    recipe_id |-> rid,
                    status |-> 0, ingredients |-> << >>, category_name |-> ""]

DetailNext == GetRecipeDetail

DetailSpec == DetailInit /\ [][DetailNext]_vars

\* the stored text of the recipe asked for
DetailText == (CHOOSE x \in detail.recipes : x.id = detail.recipe_id).ingredients

\* position k of text t starts an entry: a character that is no whitespace,
\* with only blanks between it and the start of its line
EntryStart(t, k) ==
    /\ t[k] \notin Whitespace
    /\ \A m \in 1..(k - 1) :
           t[m] \notin Whitespace => \E b \in (m + 1)..(k - 1) : t[b] \in LineBreaks

\* position k of text t ends an entry, symmetrically
EntryEnd(t, k) ==
    /\ t[k] \notin Whitespace
    /\ \A m \in (k + 1)..Len(t) :
           t[m] \notin Whitespace => \E b \in (k + 1)..(m - 1) : t[b] \in LineBreaks

EntryStarts(t) == { k \in DOMAIN t : EntryStart(t, k) }

\* the n-th entry start, and the end of the entry that starts at k
NthStart(t, n) ==
    CHOOSE k \in EntryStarts(t) : Cardinality({ m \in EntryStarts(t) : m < k }) = n - 1
EndFrom(t, k) ==
    CHOOSE e \in k..Len(t) :
        EntryEnd(t, e) /\ \A b \in k..e : t[b] \notin LineBreaks

\* C8: get-recipe on an existing id returns 200 and an ingredient list that
\* is exactly the non-blank lines of the stored text, in their order, each
\* without its surrounding whitespace: one entry per line that holds a
\* non-whitespace character, from the line's first such character to its
\* last; so no entry is empty.  Get-recipe on an id with no Recipe row
\* returns 404.
C8_IngredientLinesTrimmedInOrder ==
    detail.phase = "done"
    => IF \E x \in detail.recipes : x.id = detail.recipe_id
       THEN LET t == DetailText
                out == detail.ingredients
            IN /\ detail.status = 200
               /\ Len(out) = Cardinality(EntryStarts(t))
               /\ \A n \in DOMAIN out :
                      /\ out[n] # << >>
                      /\ out[n] = SubSeq(t, NthStart(t, n), EndFrom(t, NthStart(t, n)))
       ELSE detail.status = 404 /\ detail.ingredients = << >>

\* the stored text " a\n\nb" was shaped into the two entries "a" and "b"
C8_Witness ==
    /\ detail.phase = "done"
    /\ detail.status = 200
    /\ DetailText = << " ", "a", "\n", "\n", "b" >>
    /\ detail.ingredients = << << "a" >>, << "b" >> >>

(***************************************************************************)
(* Session scoping.  Every handler but health_check depends on _db_dep,    *)
(* which enters get_db_session (db.py 51-58): SessionLocal(), the handler  *)
(* body, and db.close() in a finally clause.  Here the acquisition, each   *)
(* Store call of the handler and the release are steps of their own, and   *)
(* any Store call may fail with a storage error, which no handler catches. *)
(* A handler leaves its body by returning, by raising the 404              *)
(* HTTPException or by a propagating storage error.                        *)
(***************************************************************************)
ExitKinds == { "return", "http_error", "storage_error" }

\* get_db_session's finally: db.close() runs whatever way the body is left
ClosesOnReturnOnly(exit) == exit = "return"
ClosesOn(exit) == exit \in ExitKinds

\* the requests a client may send: <<operation, user_id, recipe_id>>
SessRequests ==
    { << "health", 0, 0 >>, << "list_categories", 0, 0 >>, << "list_recipes", 0, 0 >>,
      << "get_recipe", 0, 1 >>, << "get_recipe", 0, 8 >>, << "list_favorites", 1, 0 >>,
      << "add_favorite", 1, 1 >>, << "add_favorite", 1, 8 >> }

SessIdleReq ==
    [pc |-> "idle", op |-> "none", user_id |-> 0, recipe_id |-> 0, fav |-> 0,
     pending |-> FALSE, status |-> 0, exit |-> "none", acquired |-> 0,
     faulted |-> FALSE]

\* storage faults so far, among requests and startups
FaultCount ==
    Cardinality({ r \in Slots : req[r].faulted })
    + Cardinality({ i \in Instances : seed[i].faulted })

\* health_check (main.py 71-73): no dependency on _db_dep, no session
SessHealth(r) ==
    /\ Serving
    /\ req[r].pc = "idle"
    /\ (IF r = 1 THEN TRUE ELSE req[r - 1].pc # "idle")
    /\ req' = [req EXCEPT ![r].pc = "done", ![r].op = "health",
                          ![r].status = 200, ![r].exit = "return"]
    /\ UNCHANGED << storeVars, seed, resp, sessions, search, detail >>

\* _db_dep / get_db_session (main.py 50-53, db.py 54): db = SessionLocal()
SessAcquire(r, op, u, rid) ==
    /\ Serving
    /\ op # "health"
    /\ req[r].pc = "idle"
    /\ (IF r = 1 THEN TRUE ELSE req[r - 1].pc # "idle")
    /\ req' = [req EXCEPT ![r].pc = "handler", ![r].op = op, ![r].user_id = u,
                          ![r].recipe_id = rid, ![r].acquired = req[r].acquired + 1]
    /\ sessions' = sessions \cup {ReqSession(r)}
    /\ UNCHANGED << storeVars, seed, resp, search, detail >>

\* list_categories, list_recipes, list_favorites (main.py 84-87, 112-138,
\* 224-246): one query, the rows as the response
SessList(r) ==
    /\ req[r].pc = "handler"
    /\ req[r].op \in { "list_categories", "list_recipes", "list_favorites" }
    /\ req' = [req EXCEPT ![r].pc = "unwind", ![r].status = 200, ![r].exit = "return"]
    /\ UNCHANGED << storeVars, seed, resp, sessions, search, detail >>

\* get_recipe (main.py 149-167): 404 raised when there is no row
SessGetRecipe(r) ==
    /\ req[r].pc = "handler"
    /\ req[r].op = "get_recipe"
    /\ IF GetRecipeRow(req[r].recipe_id) = {}
       THEN req' = [req EXCEPT ![r].pc = "unwind", ![r].status = 404,
                               ![r].exit = "http_error"]
       ELSE req' = [req EXCEPT ![r].pc = "unwind", ![r].status = 200,
                               ![r].exit = "return"]
    /\ UNCHANGED << storeVars, seed, resp, sessions, search, detail >>

\* add_favorite (main.py 180-185): db.get(Recipe, ...), 404 or db.add(fav)
SessAddGet(r) ==
    /\ req[r].pc = "handler"
    /\ req[r].op = "add_favorite"
    /\ IF RecipeFound(req[r].recipe_id)
       THEN req' = [req EXCEPT ![r].pc = "add"]
       ELSE req' = [req EXCEPT ![r].pc = "unwind", ![r].status = 404,
                               ![r].exit = "http_error"]
    /\ UNCHANGED << storeVars, seed, resp, sessions, search, detail >>

\* an uncommitted favorite row of another open session carries the pair
SessInsertWaits(r) ==
    \E s \in Slots \ {r} :
        /\ req[s].pending
        /\ req[s].user_id = req[r].user_id
        /\ req[s].recipe_id = req[r].recipe_id

\* add_favorite (main.py 187, first half): commit() flushes the INSERT
SessAddFlush(r) ==
    /\ req[r].pc = "add"
    /\ ~SessInsertWaits(r)
    /\ favSeq' = favSeq + 1
    /\ IF UniqueViolation(req[r].user_id, req[r].recipe_id)
       THEN req' = [req EXCEPT ![r].pc = "conflict"]
       ELSE req' = [req EXCEPT ![r].pc = "flushed", ![r].fav = favSeq + 1,
                               ![r].pending = TRUE]
    /\ UNCHANGED << categories, recipes, favorites, catSeq, recSeq,
                    seed, resp, sessions, search, detail >>

\* add_favorite (main.py 187, second half, and 206-213): COMMIT, refresh, return
SessAddCommit(r) ==
    /\ req[r].pc = "flushed"
    /\ favorites' = CommitFavorite([id |-> req[r].fav, user_id |-> req[r].user_id,
                                    recipe_id |-> req[r].recipe_id])
    /\ req' = [req EXCEPT ![r].pc = "unwind", ![r].pending = FALSE,
                          ![r].status = 200, ![r].exit = "return"]
    /\ UNCHANGED << categories, recipes, catSeq, recSeq, favSeq,
                    seed, resp, sessions, search, detail >>

\* add_favorite (main.py 188-204): rollback(), the re-read, the existing row
\* returned or the integrity error raised again
SessAddRecover(r) ==
    /\ req[r].pc = "conflict"
    /\ IF Cardinality(ExistingFavorite(req[r].user_id, req[r].recipe_id)) = 1
       THEN req' = [req EXCEPT ![r].pc = "unwind", ![r].status = 200,
                               ![r].exit = "return"]
       ELSE req' = [req EXCEPT ![r].pc = "unwind", ![r].status = 500,
                               ![r].exit = "storage_error"]
    /\ UNCHANGED << storeVars, seed, resp, sessions, search, detail >>

\* a Store call of the handler fails (connectivity, a failed COMMIT); the
\* error is no IntegrityError, so add_favorite's except clause lets it pass
SessFault(r) ==
    /\ req[r].pc \in { "handler", "add", "flushed", "conflict" }
    /\ FaultCount < MaxFaults
    /\ req' = [req EXCEPT ![r].pc = "unwind", ![r].status = 500,
                          ![r].exit = "storage_error", ![r].faulted = TRUE]
    /\ UNCHANGED << storeVars, seed, resp, sessions, search, detail >>

\* get_db_session (db.py 57-58): finally db.close(); closing the session
\* rolls back what it has not committed
SessRelease(r) ==
    /\ req[r].pc = "unwind"
    /\ IF ClosesOn(req[r].exit)
       THEN /\ sessions' = sessions \ {ReqSession(r)}
            /\ req' = [req EXCEPT ![r].pc = "done", ![r].pending = FALSE]
       ELSE /\ UNCHANGED sessions
            /\ req' = [req EXCEPT ![r].pc = "done"]
    /\ UNCHANGED << storeVars, seed, resp, search, detail >>

(***************************************************************************)
(* Startup with its session (main.py 56-61): with get_db_session() as db:  *)
(* seed_if_empty(db).                                                      *)
(***************************************************************************)
SessIdleSeed ==
    [pc |-> "start", pending |-> {}, exit |-> "none", acquired |-> 0, faulted |-> FALSE]

\* main.py 60, db.py 54: db = SessionLocal()
StartupAcquire(i) ==
    /\ seed[i].pc = "start"
    /\ i <= NumStartups
    /\ (IF i = 1 THEN TRUE ELSE seed[i - 1].pc # "start")
    /\ seed' = [seed EXCEPT ![i].pc = "check", ![i].acquired = seed[i].acquired + 1]
    /\ sessions' = sessions \cup {SeedSession(i)}
    /\ UNCHANGED << storeVars, req, resp, search, detail >>

\* seed.py 15-17: the emptiness check
StartupCheck(i) ==
    /\ seed[i].pc = "check"
    /\ IF SeedStoreEmpty
       THEN seed' = [seed EXCEPT ![i].pc = "insert"]
       ELSE seed' = [seed EXCEPT ![i].pc = "unwind", ![i].exit = "return"]
    /\ UNCHANGED << storeVars, req, resp, sessions, search, detail >>

\* seed.py 19-27: add_all(categories); flush(); the integrity error propagates
StartupFlush(i) ==
    /\ seed[i].pc = "insert"
    /\ ~CategoryInsertWaits(i, Range(SeedCategoryNames))
    /\ IF CategoryNameTaken(Range(SeedCategoryNames))
       THEN /\ seed' = [seed EXCEPT ![i].pc = "unwind", ![i].exit = "storage_error"]
            /\ catSeq' = catSeq + 1
       ELSE /\ seed' = [seed EXCEPT ![i].pc = "flushed", ![i].pending = NewCategories]
            /\ catSeq' = catSeq + Len(SeedCategoryNames)
    /\ UNCHANGED << categories, recipes, favorites, recSeq, favSeq,
                    req, resp, sessions, search, detail >>

\* seed.py 29-165: add_all(recipes); commit()
StartupCommit(i) ==
    /\ seed[i].pc = "flushed"
    /\ categories' = categories \cup seed[i].pending
    /\ recipes' = recipes \cup NewRecipes(seed[i].pending)
    /\ recSeq' = recSeq + Len(SeedRecipes)
    /\ seed' = [seed EXCEPT ![i].pc = "unwind", ![i].pending = {}, ![i].exit = "return"]
    /\ UNCHANGED << favorites, catSeq, favSeq, req, resp, sessions, search, detail >>

\* a Store call of seed_if_empty fails
StartupFault(i) ==
    /\ seed[i].pc \in { "check", "insert", "flushed" }
    /\ FaultCount < MaxFaults
    /\ seed' = [seed EXCEPT ![i].pc = "unwind", ![i].exit = "storage_error",
                            ![i].faulted = TRUE]
    /\ UNCHANGED << storeVars, req, resp, sessions, search, detail >>

\* db.py 57-58: finally db.close(); then startup has completed, or the error
\* leaves _on_startup and the instance does not come up
StartupRelease(i) ==
    /\ seed[i].pc = "unwind"
    /\ LET end == IF seed[i].exit = "return" THEN "done" ELSE "crashed"
       IN IF ClosesOn(seed[i].exit)
          THEN /\ sessions' = sessions \ {SeedSession(i)}
               /\ seed' = [seed EXCEPT ![i].pc = end, ![i].pending = {}]
          ELSE /\ UNCHANGED sessions
               /\ seed' = [seed EXCEPT ![i].pc = end]
    /\ UNCHANGED << storeVars, req, resp, search, detail >>

SessInit ==
    /\ \E st \in {EmptyStore, UsedStore} : StoreIs(st)
    /\ seed = [i \in Instances |-> SessIdleSeed]
    /\ req = [r \in Slots |-> SessIdleReq]
    /\ resp = NoResp
    /\ sessions = {}
    /\ search = SearchOff
    /\ detail = DetailOff

SessNext ==
    \/ \E i \in Instances : StartupAcquire(i)
    \/ \E i \in Instances : StartupCheck(i)
    \/ \E i \in Instances : StartupFlush(i)
    \/ \E i \in Instances : StartupCommit(i)
    \/ \E i \in Instances : StartupFault(i)
    \/ \E i \in Instances : StartupRelease(i)
    \/ \E r \in Slots : SessHealth(r)
    \/ \E r \in Slots, q \in SessRequests : SessAcquire(r, q[1], q[2], q[3])
    \/ \E r \in Slots : SessList(r)
    \/ \E r \in Slots : SessGetRecipe(r)
    \/ \E r \in Slots : SessAddGet(r)
    \/ \E r \in Slots : SessAddFlush(r)
    \/ \E r \in Slots : SessAddCommit(r)
    \/ \E r \in Slots : SessAddRecover(r)
    \/ \E r \in Slots : SessFault(r)
    \/ \E r \in Slots : SessRelease(r)

SessSpec == SessInit /\ [][SessNext]_vars

\* the request in slot r is over: the response is out, the dependency has unwound
ReqFinished(r) == req[r].pc = "done"

\* startup of instance i is over, completed or failed
StartupFinished(i) == seed[i].pc \in { "done", "crashed" }

\* nothing of slot r's session is left: it is closed, it holds no uncommitted
\* row, and a favorite row it inserted is stored only if the handler returned
ReqReleased(r) ==
    /\ ReqSession(r) \notin sessions
    /\ ~req[r].pending
    /\ (req[r].fav # 0 /\ req[r].exit # "return")
           => \A f \in favorites : f.id # req[r].fav

StartupReleased(i) ==
    /\ SeedSession(i) \notin sessions
    /\ seed[i].pending = {}

\* C11 as stated: every finished request and every finished startup run has
\* acquired exactly one Store session, that session is closed whatever way
\* the handler was left (return, 404, duplicate recovery, storage error),
\* and no uncommitted favorite insert is left behind.
C11_EveryRequestOneSession ==
    /\ \A r \in Slots :
           ReqFinished(r) => (req[r].acquired = 1 /\ ReqReleased(r))
    /\ \A i \in Instances :
           StartupFinished(i) => (seed[i].acquired = 1 /\ StartupReleased(i))

\* C11, amended: every finished request other than health, and every
\* finished startup run, has acquired exactly one Store session; a health
\* request acquires none; every acquired session is closed whatever way the
\* handler was left (return, 404, duplicate recovery, storage error), and no
\* uncommitted favorite insert is left behind.
C11_StoreRequestsOneSession ==
    /\ \A r \in Slots :
           ReqFinished(r) =>
               /\ req[r].acquired = (IF req[r].op = "health" THEN 0 ELSE 1)
               /\ ReqReleased(r)
    /\ \A i \in Instances :
           StartupFinished(i) => (seed[i].acquired = 1 /\ StartupReleased(i))

\* a finished add-favorite whose COMMIT failed after the INSERT was flushed:
\* the session is closed and the row is not stored, next to a finished startup
C11_Witness ==
    /\ \E r \in Slots :
           /\ ReqFinished(r)
           /\ req[r].op = "add_favorite"
           /\ req[r].exit = "storage_error"
           /\ req[r].fav # 0
           /\ req[r].acquired = 1
           /\ ReqReleased(r)
    /\ \E i \in Instances : StartupFinished(i) /\ StartupReleased(i)

====
